---- MODULE Spec2Model ----
(***************************************************************************)
(* A model of pybgen: the sequential reader PyBGEN (pybgen/pybgen.py) and  *)
(* the multi-process reader ParallelPyBGEN (pybgen/parallel.py).           *)
(*                                                                         *)
(* A BGEN file is a header followed by variant blocks laid end to end; the *)
(* sidecar index (.bgi) holds one row per block with its file offset.      *)
(* A decoded record (Variant, Data) is modelled by the identity fields of  *)
(* the block and the number of the block whose payload was decoded.        *)
(***************************************************************************)
EXTENDS Integers, Sequences, FiniteSets, Bags, TLC

\* ------------------------------------------------------------------ bounds

\* The largest number of variant blocks of a file.
MaxVariants == 3

\* The largest number of worker processes (cpus) of a parallel reader.
MaxCpus == 2

\* The largest capacity (max_variants) of the queue of a parallel iteration.
MaxQueue == 2

\* The most calls of close() on one reader.
MaxCloses == 2

\* The most samples of a file whose blocks are decoded.
MaxSamples == 1

\* array_size of iter_variant_info, 1000 in the source: the size of a batch,
\* here below the greatest number of rows of an index.
ArraySize == 2

\* ------------------------------------------------------------- input sets

\* The kinds of variant block a file is made of: the rsid, the chromosome and
\* the position of the variant, and the length of the block in the file.
\* "rs1" is carried by two kinds (BGEN permits duplicated rsids).
BlockKinds ==
    << [rsid |-> "rs1", chrom |-> "01", pos |-> 1, size |-> 1],
       [rsid |-> "rs2", chrom |-> "01", pos |-> 2, size |-> 2],
       [rsid |-> "rs1", chrom |-> "02", pos |-> 2, size |-> 2],
       [rsid |-> "rs3", chrom |-> "02", pos |-> 1, size |-> 1] >>

KindSet == {BlockKinds[k] : k \in DOMAIN BlockKinds}

\* The names a caller asks for: the rsids of the kinds and one that no file has.
Names == {"rs1", "rs2", "rs3", "UNKNOWN"}

Chroms == {"01", "02"}

\* The bounds a caller gives to a region query.
Positions == {1, 2}

\* The files: a header whose offset field is 20, then 1..MaxVariants blocks.
Files ==
    { [offset |-> 20, blocks |-> b] :
        b \in UNION { [1..n -> KindSet] : n \in 1..MaxVariants } }

\* The files of the parallel reader: the kinds in turn.
ParFiles ==
    { [offset |-> 20,
       blocks |-> [i \in 1..n |-> BlockKinds[((i - 1) % Len(BlockKinds)) + 1]]] :
        n \in 1..MaxVariants }

\* The value of an attribute that is not set, and of a missing result.
None == "None"

\* The record of a read that decoded nothing.
NoRecord == [name |-> None, chrom |-> None, pos |-> 0, data |-> 0]

\* ---------------------------------------------------------------- the file

\* 2^k.
Pow2(k) == 2 ^ k

\* Bit i (0 is the least significant) of a byte.
BitOf(byte, i) == (byte \div Pow2(i)) % 2

RECURSIVE SumSizes(_, _)
SumSizes(blocks, k) ==
    IF k = 0 THEN 0 ELSE blocks[k].size + SumSizes(blocks, k - 1)

\* self._first_variant_block = self._offset + 4
FirstVariantBlock(f) == f.offset + 4

\* The offset of the i-th variant block; that of block Len + 1 is the end of
\* the file.
BlockStart(f, i) == FirstVariantBlock(f) + SumSizes(f.blocks, i - 1)

EndOfFile(f) == BlockStart(f, Len(f.blocks) + 1)

\* The block that starts at offset o, 0 when none does.
BlockAt(f, o) ==
    IF \E i \in DOMAIN f.blocks : BlockStart(f, i) = o
    THEN CHOOSE i \in DOMAIN f.blocks : BlockStart(f, i) = o
    ELSE 0

\* _read_current_variant with the cursor at cur: the record decoded there and
\* the cursor after the read.  A read that does not start at a block fails
\* (struct.error on the short or misaligned read).
ReadCurrentVariant(f, cur) ==
    LET i == BlockAt(f, cur) IN
    IF i = 0
    THEN [ok |-> FALSE, rec |-> NoRecord, tell |-> cur]
    ELSE [ok   |-> TRUE,
          rec  |-> [name  |-> f.blocks[i].rsid,
                    chrom |-> f.blocks[i].chrom,
                    pos   |-> f.blocks[i].pos,
                    data  |-> i],
          tell |-> cur + f.blocks[i].size]

\* --------------------------------------------------------------- the index

\* The row of the Variant table for block i.
IndexRow(f, i) ==
    [chromosome          |-> f.blocks[i].chrom,
     position            |-> f.blocks[i].pos,
     rsid                |-> f.blocks[i].rsid,
     file_start_position |-> BlockStart(f, i)]

\* The Variant table in the order the store enumerates it: file order, or the
\* reverse.
IndexInFileOrder(f) == [i \in 1..Len(f.blocks) |-> IndexRow(f, i)]

IndexReversed(f) ==
    [i \in 1..Len(f.blocks) |-> IndexRow(f, Len(f.blocks) + 1 - i)]

Indexes(f) == {IndexInFileOrder(f), IndexReversed(f)}

\* The file_start_position column of a sequence of rows.
StartPositions(rows) == [k \in 1..Len(rows) |-> rows[k].file_start_position]

SeqMax(s) == CHOOSE m \in {s[k] : k \in DOMAIN s} : \A k \in DOMAIN s : s[k] <= m

SeqMin(s) == CHOOSE m \in {s[k] : k \in DOMAIN s} : \A k \in DOMAIN s : m <= s[k]

\* _connect_index: MAX (file_start_position), kept as _last_variant_block.
LastVariantBlock(idx) == SeqMax(StartPositions(idx))

SelectByRsidFirstRow(idx, name) ==
    LET rows == SelectSeq(idx, LAMBDA r : r.rsid = name) IN
    IF rows = <<>> THEN <<>> ELSE << rows[1].file_start_position >>

\* SELECT file_start_position FROM Variant WHERE rsid = ?
SelectByRsid(idx, name) ==
    StartPositions(SelectSeq(idx, LAMBDA r : r.rsid = name))

SelectByRegionEndExcluded(idx, chrom, start, end) ==
    StartPositions(SelectSeq(idx, LAMBDA r :
        r.chromosome = chrom /\ r.position >= start /\ r.position < end))

\* SELECT file_start_position FROM Variant
\* WHERE chromosome = ? AND position >= ? AND position <= ?
SelectByRegion(idx, chrom, start, end) ==
    StartPositions(SelectSeq(idx, LAMBDA r :
        r.chromosome = chrom /\ r.position >= start /\ r.position <= end))

\* SELECT chromosome, position, rsid, allele1, allele2 FROM Variant, as
\* iter_variant_info yields it: the rsids in enumeration order.
VariantInfoNames(idx) == {idx[k].rsid : k \in DOMAIN idx}

\* for seek_pos in seek_positions: seek(seek_pos); _read_current_variant().
\* The records read, and the cursor after the last read.
RECURSIVE ReadSeeks(_, _, _)
ReadSeeks(f, seeks, cur) ==
    IF seeks = <<>>
    THEN [recs |-> <<>>, tell |-> cur]
    ELSE LET r    == ReadCurrentVariant(f, Head(seeks))
             rest == ReadSeeks(f, Tail(seeks), r.tell)
         IN [recs |-> <<r.rec>> \o rest.recs, tell |-> rest.tell]

\* cursor.fetchall(): every row of the result set, none left on the cursor.
FetchAll(rows) == [rows |-> rows, left |-> <<>>]

\* cursor.fetchmany(n): the next n rows of the result set (fewer at its end,
\* none once it is exhausted), the others left on the cursor.
FetchMany(rows, n) ==
    [rows |-> SubSeq(rows, 1, IF n < Len(rows) THEN n ELSE Len(rows)),
     left |-> SubSeq(rows, n + 1, Len(rows))]

\* SELECT chromosome, position, rsid, allele1, allele2 FROM Variant, each row
\* as the _Variant that iter_variant_info makes of it.
SelectVariantInfo(idx) ==
    [k \in 1..Len(idx) |->
        [name |-> idx[k].rsid, chrom |-> idx[k].chromosome,
         pos |-> idx[k].position]]

\* ------------------------------------------------------------------- state

VARIABLES
    file,          \* the BGEN file the reader was opened on
    index,         \* the rows of the Variant table, in enumeration order
    tell,          \* self._bgen.tell(): the cursor of the reader's file handle
    it_pure,       \* iter_variants() was called and only next() since
    it_yielded,    \* the records next() returned since that iter_variants()
    ret,           \* what the last operation of the reader returned or raised
    rg,            \* the generator of iter_variants_in_region
    cpus,          \* ParallelPyBGEN.cpus: the number of worker processes
    max_variants,  \* ParallelPyBGEN._max_variants: the capacity of a queue
    seeks_cache,   \* ParallelPyBGEN._seeks: <<>> for None, else << tuple >>
    workers_attr,  \* ParallelPyBGEN._workers: the workers last spawned
    tnames,        \* the temporary table tnames: <<>> when it does not exist
    gen,           \* the generators of _parallel_iter_seeks, by slot
    wk,            \* the worker processes spawned for each generator
    pret,          \* what the last call on the parallel reader returned
    inp,           \* what PyBGEN(...) is called with and the files it finds
    lc,            \* the life of the reader object: where its caller is
    bgen_open,     \* the handle self._bgen of open(fn, "rb") is open
    db_open,       \* the connection self._bgen_db to the index is open
    blk,           \* the variant block under the cursor and the reader's settings
    dec,           \* what _get_curr_variant_data returned or raised for it
    pk,            \* a byte string of packed probabilities and its bit width
    unp,           \* what _pack_bits and np.frombuffer made of it
    icur,          \* the rows self._bgen_index has selected and not fetched
    vi             \* the generators of iter_variant_info, by slot

readerVars == << tell, it_pure, it_yielded, ret, rg >>

parallelVars ==
    << cpus, max_variants, seeks_cache, workers_attr, tnames, gen, wk, pret >>

openVars == << inp, lc, bgen_open, db_open >>

codecVars == << blk, dec, pk, unp >>

infoVars == << icur, vi >>

vars == << file, index, readerVars, parallelVars, openVars, codecVars, infoVars >>

\* ------------------------------------------------- the sequential reader

NoRegion == [pc |-> "none", args |-> None, seeks |-> <<>>, out |-> <<>>]

\* The slots of the generators a model run creates.
Gens == {1, 2}

NoGen ==
    [pc |-> "none", kind |-> None, names |-> <<>>, stripes |-> <<>>,
     queue |-> <<>>, nb_finish |-> 0, out |-> <<>>]

\* No parallel reader: the attributes of ParallelPyBGEN at rest.
ParallelUnused ==
    /\ cpus = 0
    /\ max_variants = 0
    /\ seeks_cache = <<>>
    /\ workers_attr = <<>>
    /\ tnames = <<>>
    /\ gen = [g \in Gens |-> NoGen]
    /\ wk = [g \in Gens |-> <<>>]
    /\ pret = [op |-> "open"]

\* No variant block was handed to the decoder, no byte string to the unpacker.
NotDecoded == [state |-> "none"]

CodecUnused ==
    /\ blk = [layout |-> 0]
    /\ dec = NotDecoded
    /\ pk = [b |-> 0]
    /\ unp = [generic |-> NotDecoded, fast |-> NotDecoded]

\* The slots of the generators of iter_variant_info a model run creates.
InfoGens == {1, 2}

NoInfoGen == [pc |-> "none", results |-> <<>>, out |-> <<>>]

\* The index cursor after _connect_index (its one row was fetched), and no
\* generator of iter_variant_info.
InfoUnused ==
    /\ icur = <<>>
    /\ vi = [g \in InfoGens |-> NoInfoGen]

\* ------------------------------------------------------ the header block

\* The magic number of a header: "bgen", four zero bytes, and four bytes that
\* are neither.
Magics == { << 98, 103, 101, 110 >>, << 0, 0, 0, 0 >>, << 0, 0, 0, 1 >> }

\* Byte 0 of the flags word: the layouts 0, 1, 2, 3 and 15 with each of the
\* four compression values, and layout 2 with zlib and bit 6 set.
Flags0 == { l * 4 + c : l \in {0, 1, 2, 3, 15}, c \in 0..3 } \cup { 73 }

\* Byte 3 of the flags word: no bit set, every bit but bit 7, and bit 7 (bit
\* 31 of the word) alone.
Flags3 == { 0, 127, 128 }

\* The sample block that follows the header block: whether its size fits
\* before the first variant block, and its number of samples.
SampleBlocks ==
    { [fits |-> TRUE, n |-> n] : n \in 1..(MaxSamples + 1) }
        \cup { [fits |-> FALSE, n |-> 1] }

\* What a header block holds, as _parse_header reads it.
Headers ==
    [magic : Magics,
     flags0 : Flags0,
     flags3 : Flags3,
     nb_samples : 1..MaxSamples,
     sblock : SampleBlocks]

\* np.unpackbits on one byte: its bits, the most significant one first.
UnpackBits(byte) == [k \in 1..8 |-> BitOf(byte, 8 - k)]

\* _bits_to_int: result = (result << 1) | bit over the bits in order.
RECURSIVE BitsToInt(_)
BitsToInt(bits) ==
    IF bits = <<>> THEN 0
    ELSE 2 * BitsToInt(SubSeq(bits, 1, Len(bits) - 1)) + bits[Len(bits)]

\* compression = _bits_to_int(flag[0, -2:])
Compression(h) == BitsToInt(SubSeq(UnpackBits(h.flags0), 7, 8))

\* The layout read from the low four bits of the flags.
LayoutOfLowNibble(h) == BitsToInt(SubSeq(UnpackBits(h.flags0), 5, 8))

\* layout = _bits_to_int(flag[0, -6:-2])
Layout(h) == BitsToInt(SubSeq(UnpackBits(h.flags0), 3, 6))

\* self._has_sample = flag[-1, 0] == 1
HasSample(h) == UnpackBits(h.flags3)[1] = 1

\* magic != b"bgen" and unpack("<I", magic)[0] != 0
MagicRejected(magic) ==
    /\ magic # << 98, 103, 101, 110 >>
    /\ \E k \in DOMAIN magic : magic[k] # 0

\* The sample count of a sample block or of a variant block is not compared.
SampleCountUnchecked(n, nb_samples) == FALSE

\* n != self._nb_samples
SampleCountDiffers(n, nb_samples) == n # nb_samples

\* _parse_header: the error it raises, None when it returns.  The sample
\* block is parsed only when the flags say the file has one.
ParseHeader(h, has_zstd) ==
    IF MagicRejected(h.magic) THEN "magic"
    ELSE IF Compression(h) = 2 /\ ~has_zstd THEN "zstd"
    ELSE IF Layout(h) = 0 THEN "layout"
    ELSE IF Layout(h) \notin {1, 2} THEN "layout"
    ELSE IF HasSample(h) /\ ~h.sblock.fits THEN "sample_block"
    ELSE IF HasSample(h) /\ SampleCountDiffers(h.sblock.n, h.nb_samples)
    THEN "sample_n"
    ELSE None

\* The decompressor _parse_header_block selects: none for compression 3,
\* where no branch assigns self._decompress.
Decompress(h) ==
    IF Compression(h) = 0 THEN "identity"
    ELSE IF Compression(h) = 1 THEN "zlib"
    ELSE IF Compression(h) = 2 THEN "zstd"
    ELSE None

\* The attributes _parse_header leaves on the reader.
ReaderAttrs(h) ==
    [layout |-> Layout(h), compression |-> Compression(h),
     decompress |-> Decompress(h), has_sample |-> HasSample(h)]

\* The attributes of a reader whose header was not parsed.
NoReader ==
    [layout |-> 0, compression |-> 0, decompress |-> None,
     has_sample |-> FALSE]

\* A well-formed file opened in read mode with its index.
GoodInput ==
    [mode |-> "r", skip_index |-> FALSE,
     hdr |-> [magic |-> << 98, 103, 101, 110 >>, flags0 |-> 9,
              flags3 |-> 128, nb_samples |-> 1,
              sblock |-> [fits |-> TRUE, n |-> 1]],
     has_zstd |-> TRUE, bgi |-> "present"]

\* A reader that was opened and is in use.
ReaderOpened ==
    /\ inp = GoodInput
    /\ lc = [pc |-> "open", error |-> None, why |-> None, closes |-> 0,
             reader |-> ReaderAttrs(GoodInput.hdr)]
    /\ bgen_open = TRUE
    /\ db_open = TRUE

\* The reader after PyBGEN(fn): the header parsed, the index checked, and the
\* cursor on the first variant block.
InitReader ==
    /\ file \in Files
    /\ index \in Indexes(file)
    /\ tell = FirstVariantBlock(file)
    /\ it_pure = FALSE
    /\ it_yielded = <<>>
    /\ ret = [op |-> "open"]
    /\ rg = NoRegion
    /\ ParallelUnused
    /\ InfoUnused
    /\ CodecUnused
    /\ ReaderOpened

\* iter_variants(): seek back to the first variant block, return the reader.
\* (ret keeps the cursor the call found, for the claims to read.)
IterVariantsKeepsCursor(f, cur) == cur

IterVariantsSeek(f, cur) == FirstVariantBlock(f)

IterVariants ==
    /\ tell' = IterVariantsSeek(file, tell)
    /\ it_pure' = TRUE
    /\ it_yielded' = <<>>
    /\ ret' = [op |-> "iter_variants", from |-> tell]
    /\ UNCHANGED << file, index, rg, parallelVars, openVars, codecVars, infoVars >>

\* The lookup that the call before a next() was, if it was one.  (ret of
\* next() keeps it, for the claims to read.)
CallBefore(r) ==
    IF r.op = "get_variant"
    THEN [op |-> r.op, name |-> r.name, error |-> r.error, ended |-> r.ended]
    ELSE IF r.op = "region_next"
    THEN [op |-> r.op, stop |-> r.stop, rec |-> r.rec]
    ELSE [op |-> "other"]

\* next(): the test that ends the iteration.
NextStopsAtLast(cur, last) == cur >= last

NextStops(cur, last) == cur > last

\* next(): StopIteration when the cursor is past the last variant block, else
\* the record at the cursor.
NextVariant ==
    IF NextStops(tell, LastVariantBlock(index))
    THEN /\ ret' = [op |-> "next", stop |-> TRUE, rec |-> NoRecord,
                    after |-> CallBefore(ret)]
         /\ UNCHANGED << file, index, tell, it_pure, it_yielded, rg >>
         /\ UNCHANGED << parallelVars, openVars, codecVars, infoVars >>
    ELSE LET r == ReadCurrentVariant(file, tell) IN
         /\ tell' = r.tell
         /\ ret' = [op |-> "next", stop |-> FALSE, rec |-> r.rec,
                    after |-> CallBefore(ret)]
         /\ it_yielded' = IF it_pure THEN Append(it_yielded, r.rec) ELSE <<>>
         /\ UNCHANGED << file, index, it_pure, rg, parallelVars, openVars, codecVars, infoVars >>

\* get_variant(name): the records of the rows whose rsid is name, ValueError
\* when there is none.  (ret keeps whether the call found the cursor past the
\* last variant block.)
GetVariantResultCursorKept(f, idx, name, cur) ==
    LET got == ReadSeeks(f, SelectByRsid(idx, name), cur) IN
    [op      |-> "get_variant",
     name    |-> name,
     results |-> got.recs,
     error   |-> IF got.recs = <<>> THEN "ValueError" ELSE None,
     tell    |-> cur]

GetVariantResult(f, idx, name, cur) ==
    LET got == ReadSeeks(f, SelectByRsid(idx, name), cur) IN
    [op      |-> "get_variant",
     name    |-> name,
     results |-> got.recs,
     error   |-> IF got.recs = <<>> THEN "ValueError" ELSE None,
     tell    |-> got.tell]

GetVariant(name) ==
    LET r == GetVariantResult(file, index, name, tell) IN
    /\ tell' = r.tell
    /\ ret' = [op |-> "get_variant", name |-> r.name, results |-> r.results,
               error |-> r.error,
               ended |-> NextStops(tell, LastVariantBlock(index))]
    /\ it_pure' = FALSE
    /\ it_yielded' = <<>>
    /\ icur' = FetchAll(SelectByRsid(index, name)).left
    /\ UNCHANGED << file, index, rg, parallelVars, openVars, codecVars, vi >>

\* iter_variants_in_region(chrom, start, end): a generator; nothing of its body
\* runs before its first next().
IterVariantsInRegion(chrom, start, end) ==
    /\ rg' = [pc |-> "created", args |-> << chrom, start, end >>,
              seeks |-> <<>>, out |-> <<>>]
    /\ ret' = [op |-> "iter_variants_in_region"]
    /\ UNCHANGED << file, index, tell, it_pure, it_yielded, parallelVars, openVars, codecVars, infoVars >>

\* One next() of the region generator: the first runs the query; each seeks to
\* the next position and yields the record there, or ends the generator.
RegionNext ==
    /\ rg.pc \in {"created", "running"}
    /\ LET seeks == IF rg.pc = "created"
                    THEN SelectByRegion(index, rg.args[1], rg.args[2], rg.args[3])
                    ELSE rg.seeks
       IN IF seeks = <<>>
          THEN /\ rg' = [rg EXCEPT !.pc = "done", !.seeks = <<>>]
               /\ ret' = [op |-> "region_next", stop |-> TRUE, rec |-> NoRecord]
               /\ UNCHANGED << tell, it_pure, it_yielded >>
          ELSE LET r == ReadCurrentVariant(file, Head(seeks)) IN
               /\ rg' = [rg EXCEPT !.pc = "running", !.seeks = Tail(seeks),
                                   !.out = Append(rg.out, r.rec)]
               /\ ret' = [op |-> "region_next", stop |-> FALSE, rec |-> r.rec]
               /\ tell' = r.tell
               /\ it_pure' = FALSE
               /\ it_yielded' = <<>>
    /\ icur' = IF rg.pc = "created"
               THEN FetchAll(SelectByRegion(index, rg.args[1], rg.args[2],
                                            rg.args[3])).left
               ELSE icur
    /\ UNCHANGED << file, index, parallelVars, openVars, codecVars, vi >>

\* iter_variant_info(): a generator; nothing of its body runs before its
\* first next().
IterVariantInfo(g) ==
    /\ vi[g].pc = "none"
    /\ \A h \in InfoGens : h < g => vi[h].pc # "none"
    /\ vi' = [vi EXCEPT ![g].pc = "created"]
    /\ ret' = [op |-> "iter_variant_info"]
    /\ UNCHANGED << file, index, tell, it_pure, it_yielded, rg, icur,
                    parallelVars, openVars, codecVars >>

\* One next() of a generator of iter_variant_info.  The first executes the
\* query on the reader's cursor and fetches a batch; each yields the next row
\* of the batch at hand, fetching another from the cursor, whatever result
\* set it holds by then, when the batch is used up; an empty batch ends the
\* generator.
InfoNext(g) ==
    /\ vi[g].pc \in {"created", "running"}
    /\ LET cur == IF vi[g].pc = "created" THEN SelectVariantInfo(index)
                  ELSE icur
           fetch == vi[g].pc = "created" \/ vi[g].results = <<>>
           got == FetchMany(cur, ArraySize)
           results == IF fetch THEN got.rows ELSE vi[g].results
       IN /\ icur' = IF fetch THEN got.left ELSE icur
          /\ IF results = <<>>
             THEN /\ vi' = [vi EXCEPT ![g].pc = "done", ![g].results = <<>>]
                  /\ ret' = [op |-> "info_next", stop |-> TRUE,
                             rec |-> NoRecord]
             ELSE /\ vi' = [vi EXCEPT ![g].pc = "running",
                                      ![g].results = Tail(results),
                                      ![g].out = Append(@, Head(results))]
                  /\ ret' = [op |-> "info_next", stop |-> FALSE,
                             rec |-> Head(results)]
    /\ UNCHANGED << file, index, tell, it_pure, it_yielded, rg,
                    parallelVars, openVars, codecVars >>

NextReader ==
    \/ IterVariants
    \/ NextVariant
    \/ \E name \in Names : GetVariant(name)
    \/ \E c \in Chroms, s \in Positions, e \in Positions :
           IterVariantsInRegion(c, s, e)
    \/ RegionNext

SpecReader == InitReader /\ [][NextReader]_vars

\* A reader whose caller steps generators of iter_variant_info and calls the
\* lookups that use the index between their steps.
NextInfo ==
    \/ \E g \in InfoGens : IterVariantInfo(g)
    \/ \E g \in InfoGens : InfoNext(g)
    \/ \E name \in Names : GetVariant(name)
    \/ \E c \in Chroms, s \in Positions, e \in Positions :
           IterVariantsInRegion(c, s, e)
    \/ RegionNext

\* The reader after PyBGEN(fn) on a file made of the kinds in turn.
InitInfo ==
    /\ file \in ParFiles
    /\ InitReader

SpecInfo == InitInfo /\ [][NextInfo]_vars

\* --------------------------------------------------- the parallel reader

\* The lists of names a caller gives to iter_variants_by_names.
NameLists == { <<"rs1">>, <<"rs2", "rs3">>, <<"UNKNOWN">> }

\* queue.put(None): the sentinel a worker puts after its last record.
Sentinel == NoRecord

\* seeks.sort(): ascending order.
RECURSIVE SortSeeks(_)
SortSeeks(s) ==
    IF s = <<>>
    THEN <<>>
    ELSE LET m == SeqMin(s)
             k == CHOOSE j \in DOMAIN s : s[j] = m
         IN << m >> \o SortSeeks(SubSeq(s, 1, k - 1) \o SubSeq(s, k + 1, Len(s)))

GetAllSeeksUnsorted(idx) == StartPositions(idx)
\* _get_all_seeks: SELECT file_start_position FROM Variant, sorted.
GetAllSeeks(idx) == SortSeeks(StartPositions(idx))

StrideFromNext(s, i, w) ==
    [k \in 1..((Len(s) - i + w - 1) \div w) |->
        s[IF i + 1 + (k - 1) * w < Len(s) THEN i + 2 + (k - 1) * w ELSE Len(s)]]

\* seeks[i::w]: the elements at positions i, i + w, i + 2w, ... (from 0).
Stride(s, i, w) ==
    [k \in 1..((Len(s) - i + w - 1) \div w) |-> s[i + 1 + (k - 1) * w]]

\* [seeks[i::self.cpus] for i in range(self.cpus)]
Stripes(s, w) == [j \in 1..w |-> Stride(s, j - 1, w)]

\* _get_seeks_for_names, the query: the offsets of the rows whose rsid is in
\* the table tnames, in enumeration order.
SelectByNames(idx, table) ==
    StartPositions(SelectSeq(idx, LAMBDA r : r.rsid \in table))

SeqToSet(s) == {s[k] : k \in DOMAIN s}

\* The parallel reader after ParallelPyBGEN(fn, cpus=, max_variants=).
InitParallel ==
    /\ file \in ParFiles
    /\ index \in Indexes(file)
    /\ tell = FirstVariantBlock(file)
    /\ it_pure = FALSE
    /\ it_yielded = <<>>
    /\ ret = [op |-> "open"]
    /\ rg = NoRegion
    /\ cpus \in 1..MaxCpus
    /\ max_variants \in 1..MaxQueue
    /\ seeks_cache = <<>>
    /\ workers_attr = <<>>
    /\ tnames = <<>>
    /\ gen = [g \in Gens |-> NoGen]
    /\ wk = [g \in Gens |-> <<>>]
    /\ pret = [op |-> "open"]
    /\ CodecUnused
    /\ InfoUnused
    /\ ReaderOpened

\* The consumer is one thread: while it is inside next() of a generator
\* (blocked on queue.get) it calls nothing else.
ConsumerIdle == \A g \in Gens : gen[g].pc # "running"

\* The slot of the next generator object.
FreeSlot(g) == gen[g].pc = "none" /\ \A h \in Gens : h < g => gen[h].pc # "none"

\* A generator that has ended is garbage once the caller asks for another one,
\* and so are its worker processes once none of them runs.
Ended(g) == gen[g].pc \in {"done", "closed", "collected"}

Collect(h, new) ==
    [g \in Gens |->
        IF g = h THEN new
        ELSE IF Ended(g) THEN [NoGen EXCEPT !.pc = "collected"]
        ELSE gen[g]]

Reap ==
    [g \in Gens |->
        IF Ended(g) /\ \A i \in DOMAIN wk[g] : wk[g][i].st # "run"
        THEN <<>>
        ELSE wk[g]]

\* No generator of the reader is live: each was run to its end or closed.
NoLiveGen == \A g \in Gens : gen[g].pc = "none" \/ Ended(g)

NewGen(kind, names, seeks) ==
    [pc |-> "created", kind |-> kind, names |-> names,
     stripes |-> Stripes(seeks, cpus),
     queue |-> <<>>, nb_finish |-> 0, out |-> <<>>]

\* ParallelPyBGEN.iter_variants(): fill the cache of seeks on the first call,
\* shard it, and return the generator of _parallel_iter_seeks (not started).
ParIterVariants(g) ==
    /\ ConsumerIdle
    /\ FreeSlot(g)
    /\ LET seeks == IF seeks_cache = <<>> THEN GetAllSeeks(index)
                    ELSE seeks_cache[1]
       IN /\ seeks_cache' = << seeks >>
          /\ gen' = Collect(g, NewGen("all", <<>>, seeks))
          /\ pret' = [op |-> "iter_variants", error |-> None,
                      names |-> <<>>, seeks |-> seeks]
    /\ wk' = Reap
    /\ icur' = IF seeks_cache = <<>>
               THEN FetchAll(StartPositions(index)).left
               ELSE icur
    /\ UNCHANGED << file, index, readerVars, openVars, codecVars, vi, cpus, max_variants,
                    workers_attr, tnames >>

\* CREATE TEMPORARY TABLE tnames: fails when the connection has the table
\* (nothing drops it, and the reader keeps one connection until close()).
CreateTableFails(table) == table # <<>>

\* ParallelPyBGEN.iter_variants_by_names(names): create and fill the
\* temporary table, select the seeks, shard them and return the generator.
\* When CREATE TEMPORARY TABLE raises (sqlite3.OperationalError) the call
\* returns no generator.
ParIterVariantsByNames(g, names) ==
    /\ ConsumerIdle
    /\ FreeSlot(g)
    /\ IF CreateTableFails(tnames)
       THEN /\ pret' = [op |-> "iter_variants_by_names",
                        error |-> "OperationalError",
                        names |-> names, seeks |-> <<>>]
            /\ UNCHANGED << tnames, gen, wk >>
       ELSE LET table == (IF tnames = <<>> THEN {} ELSE tnames[1])
                             \cup SeqToSet(names)
                seeks == SelectByNames(index, table)
            IN /\ tnames' = << table >>
               /\ gen' = Collect(g, NewGen("names", names, seeks))
               /\ wk' = Reap
               /\ pret' = [op |-> "iter_variants_by_names", error |-> None,
                           names |-> names, seeks |-> seeks]
    /\ icur' = <<>>
    /\ UNCHANGED << file, index, readerVars, openVars, codecVars, vi, cpus, max_variants,
                    seeks_cache, workers_attr >>

\* _spawn_workers: self._workers = [] and then one started process per stripe.
SpawnWorkers(g, old) == [i \in 1..cpus |-> << g, i >>]

\* for worker in self._workers: worker.terminate().  A process that has
\* exited stays exited.
Terminate(ws, workers) ==
    [g \in Gens |->
        [i \in DOMAIN ws[g] |->
            IF ws[g][i].st = "run" /\ << g, i >> \in SeqToSet(workers)
            THEN [ws[g][i] EXCEPT !.st = "term"]
            ELSE ws[g][i]]]

\* The first next() of a generator, up to its loop: the queue is created and
\* the workers are spawned.
GenStart(g) ==
    /\ ConsumerIdle
    /\ gen[g].pc = "created"
    /\ workers_attr' = SpawnWorkers(g, workers_attr)
    /\ wk' = [wk EXCEPT ![g] = [i \in 1..cpus |-> [pos |-> 0, st |-> "run"]]]
    /\ gen' = [gen EXCEPT ![g].pc = "running"]
    /\ UNCHANGED << file, index, readerVars, openVars, codecVars, infoVars, cpus, max_variants,
                    seeks_cache, tnames, pret >>

\* _iter_seeks in a worker: the seek the worker reads after it has put pos
\* records.
StripeSeekBackwards(stripe, pos) == stripe[Len(stripe) - pos]

StripeSeek(stripe, pos) == stripe[pos + 1]

QueueFullAboveCapacity(q) == Len(q) > max_variants
\* queue.put on a queue of capacity max_variants blocks while it is full.
QueueFull(q) == Len(q) >= max_variants

\* _pybgen_reader, one turn of its loop: the worker reads the next record of
\* its stripe on its own file handle and puts it on the queue.
WorkerPut(g, i) ==
    /\ i \in DOMAIN wk[g]
    /\ wk[g][i].st = "run"
    /\ wk[g][i].pos < Len(gen[g].stripes[i])
    /\ ~QueueFull(gen[g].queue)
    /\ LET r == ReadCurrentVariant(file,
                    StripeSeek(gen[g].stripes[i], wk[g][i].pos))
       IN gen' = [gen EXCEPT ![g].queue = Append(@, r.rec)]
    /\ wk' = [wk EXCEPT ![g][i].pos = @ + 1]
    /\ UNCHANGED << file, index, readerVars, openVars, codecVars, infoVars, cpus, max_variants,
                    seeks_cache, workers_attr, tnames, pret >>

\* _pybgen_reader after its loop: the worker puts the sentinel and exits.
WorkerSentinel(g, i) ==
    /\ i \in DOMAIN wk[g]
    /\ wk[g][i].st = "run"
    /\ wk[g][i].pos = Len(gen[g].stripes[i])
    /\ ~QueueFull(gen[g].queue)
    /\ gen' = [gen EXCEPT ![g].queue = Append(@, Sentinel)]
    /\ wk' = [wk EXCEPT ![g][i].st = "exit"]
    /\ UNCHANGED << file, index, readerVars, openVars, codecVars, infoVars, cpus, max_variants,
                    seeks_cache, workers_attr, tnames, pret >>

\* if nb_finish >= self.cpus: break
ConsumerDoneBelowCpus(n) == n >= cpus - 1

ConsumerDone(n) == n >= cpus

\* _parallel_iter_seeks, one turn of the consumer's loop inside next(): leave
\* the loop (and terminate the workers, in the finally) once cpus sentinels
\* were seen; else take an item from the queue, count it when it is a
\* sentinel and yield it when it is a record.  A get on an empty queue blocks.
ConsumerStep(g) ==
    /\ gen[g].pc \in {"running", "yielded"}
    /\ gen[g].pc = "yielded" => ConsumerIdle
    /\ IF ConsumerDone(gen[g].nb_finish)
       THEN /\ gen' = [gen EXCEPT ![g].pc = "done"]
            /\ wk' = Terminate(wk, workers_attr)
       ELSE IF gen[g].queue # <<>>
       THEN /\ IF Head(gen[g].queue) = Sentinel
               THEN gen' = [gen EXCEPT ![g].pc = "running",
                                       ![g].queue = Tail(@),
                                       ![g].nb_finish = @ + 1]
               ELSE gen' = [gen EXCEPT ![g].pc = "yielded",
                                       ![g].queue = Tail(@),
                                       ![g].out = Append(@, Head(gen[g].queue))]
            /\ UNCHANGED wk
       ELSE /\ gen[g].pc = "yielded"
            /\ gen' = [gen EXCEPT ![g].pc = "running"]
            /\ UNCHANGED wk
    /\ UNCHANGED << file, index, readerVars, openVars, codecVars, infoVars, cpus, max_variants,
                    seeks_cache, workers_attr, tnames, pret >>

\* The consumer leaves a generator early: close() on it, or an exception in
\* the consumer's loop that drops it.  GeneratorExit is raised at the yield
\* and the finally terminates the workers; a generator that never started
\* runs nothing.
GenClose(g) ==
    /\ ConsumerIdle
    /\ gen[g].pc \in {"created", "yielded"}
    /\ gen' = [gen EXCEPT ![g].pc = "closed"]
    /\ wk' = IF gen[g].pc = "yielded" THEN Terminate(wk, workers_attr) ELSE wk
    /\ UNCHANGED << file, index, readerVars, openVars, codecVars, infoVars, cpus, max_variants,
                    seeks_cache, workers_attr, tnames, pret >>

\* A parallel reader whose caller runs one iteration at a time: it asks for a
\* new generator only when the one before was run to its end or closed.
NextParallel ==
    \/ \E g \in Gens : NoLiveGen /\ ParIterVariants(g)
    \/ \E g \in Gens, names \in NameLists :
           NoLiveGen /\ ParIterVariantsByNames(g, names)
    \/ \E g \in Gens : GenStart(g)
    \/ \E g \in Gens, i \in 1..MaxCpus : WorkerPut(g, i)
    \/ \E g \in Gens, i \in 1..MaxCpus : WorkerSentinel(g, i)
    \/ \E g \in Gens : ConsumerStep(g)
    \/ \E g \in Gens : GenClose(g)

SpecParallel == InitParallel /\ [][NextParallel]_vars

\* A parallel reader whose caller may hold several live generators at once.
NextOverlap ==
    \/ \E g \in Gens : ParIterVariants(g)
    \/ \E g \in Gens, names \in NameLists : ParIterVariantsByNames(g, names)
    \/ \E g \in Gens : GenStart(g)
    \/ \E g \in Gens, i \in 1..MaxCpus : WorkerPut(g, i)
    \/ \E g \in Gens, i \in 1..MaxCpus : WorkerSentinel(g, i)
    \/ \E g \in Gens : ConsumerStep(g)
    \/ \E g \in Gens : GenClose(g)

SpecOverlap == InitParallel /\ [][NextOverlap]_vars

\* A parallel reader whose caller asks for one generator and runs it to its
\* end.  The consumer keeps calling next(), and the operating system runs
\* every worker process that is able to run.
NextExhaust ==
    \/ ParIterVariants(1)
    \/ \E names \in NameLists : ParIterVariantsByNames(1, names)
    \/ GenStart(1)
    \/ \E i \in 1..MaxCpus : WorkerPut(1, i)
    \/ \E i \in 1..MaxCpus : WorkerSentinel(1, i)
    \/ ConsumerStep(1)

SpecParallelFair ==
    /\ InitParallel
    /\ [][NextExhaust]_vars
    /\ WF_vars(GenStart(1) \/ ConsumerStep(1))
    /\ \A i \in 1..MaxCpus : WF_vars(WorkerPut(1, i) \/ WorkerSentinel(1, i))

PutsSentinelAlways(raised) == TRUE

\* _pybgen_reader: queue.put(None) follows the with block, so it is reached
\* only when the loop over the stripe ended without an exception.
PutsSentinel(raised) == ~raised

\* _pybgen_reader when reading one of its offsets raises (a block the decoder
\* rejects): the exception leaves the with block and the function, the
\* process ends, and nothing catches it or reports it to the consumer.
WorkerFail(g, i) ==
    /\ i \in DOMAIN wk[g]
    /\ wk[g][i].st = "run"
    /\ wk[g][i].pos < Len(gen[g].stripes[i])
    /\ IF PutsSentinel(TRUE)
       THEN /\ ~QueueFull(gen[g].queue)
            /\ gen' = [gen EXCEPT ![g].queue = Append(@, Sentinel)]
       ELSE UNCHANGED gen
    /\ wk' = [wk EXCEPT ![g][i].st = "failed"]
    /\ UNCHANGED << file, index, readerVars, openVars, codecVars, infoVars, cpus, max_variants,
                    seeks_cache, workers_attr, tnames, pret >>

\* A parallel reader whose caller asks for one generator and keeps calling
\* next() on it, while any read of any worker may raise.
NextWorkerFail ==
    \/ ParIterVariants(1)
    \/ \E names \in NameLists : ParIterVariantsByNames(1, names)
    \/ GenStart(1)
    \/ \E i \in 1..MaxCpus : WorkerPut(1, i)
    \/ \E i \in 1..MaxCpus : WorkerSentinel(1, i)
    \/ \E i \in 1..MaxCpus : WorkerFail(1, i)
    \/ ConsumerStep(1)

SpecWorkerFail ==
    /\ InitParallel
    /\ [][NextWorkerFail]_vars
    /\ WF_vars(GenStart(1) \/ ConsumerStep(1))
    /\ \A i \in 1..MaxCpus : WF_vars(WorkerPut(1, i) \/ WorkerSentinel(1, i))
\* PyBGEN.iter_variants() followed by next() until StopIteration: the records
\* of the sequential reader.
RECURSIVE SequentialFrom(_, _, _)
SequentialFrom(f, idx, cur) ==
    IF NextStops(cur, LastVariantBlock(idx))
    THEN <<>>
    ELSE LET r == ReadCurrentVariant(f, cur)
         IN << r.rec >> \o SequentialFrom(f, idx, r.tell)

SequentialRecords(f, idx) == SequentialFrom(f, idx, IterVariantsSeek(f, 0))

\* ------------------------------------------------- opening and closing

\* What PyBGEN(fn, mode, _skip_index) is called with and what it finds: the
\* header, whether the zstd module was imported (HAS_ZSTD), and whether the
\* file of the index (fn + ".bgi") exists.
OpenInputs ==
    [mode : {"r", "w", "a"},
     skip_index : BOOLEAN,
     hdr : Headers,
     has_zstd : BOOLEAN,
     bgi : {"missing", "present"}]

\* The Variant tables an index file may hold for a file: the rows of the
\* file's blocks in either order, the table with its first or its last row
\* missing, with one more row, or with every offset moved by one byte.
OpenIndexes(f) ==
    LET rows == IndexInFileOrder(f) IN
    { rows,
      IndexReversed(f),
      Tail(rows),
      SubSeq(rows, 1, Len(rows) - 1),
      Append(rows, [rows[1] EXCEPT !.file_start_position = EndOfFile(f)]),
      [k \in DOMAIN rows |->
          [rows[k] EXCEPT !.file_start_position = @ + 1]] }

\* The header's number of variants (self._nb_variants).
HeaderNbVariants(f) == Len(f.blocks)

\* The check of the first offset left out.
FirstOffsetUnchecked(first, f) == FALSE

\* _connect_index: the index's first offset differs from the header's
\* (MIN over no row is NULL, which differs from every offset).
FirstOffsetDiffers(first, f) ==
    first = <<>> \/ first[1] # FirstVariantBlock(f)

\* _connect_index: SELECT COUNT(rsid), MIN(file_start_position) FROM Variant
\* compared with the header; the error it raises, None when it returns.
ConnectIndex(f, idx) ==
    LET nb_markers == Len(idx)
        first_variant_block ==
            IF idx = <<>> THEN <<>> ELSE << SeqMin(StartPositions(idx)) >>
    IN IF nb_markers # HeaderNbVariants(f) THEN "index_count"
       ELSE IF FirstOffsetDiffers(first_variant_block, f) THEN "index_first"
       ELSE None

\* PyBGEN.__init__: the exception it raises (None when it returns the reader)
\* and the handles it has opened by then.  In mode "r" the file is opened
\* first; the index is connected once the file of the index was found.
\* NotImplemented is not callable, so mode "w" raises TypeError.
InitResult(in, f, idx) ==
    IF in.mode = "r"
    THEN LET herr == ParseHeader(in.hdr, in.has_zstd) IN
         IF herr # None
         THEN [error |-> "ValueError", why |-> herr,
               bgen |-> TRUE, db |-> FALSE]
         ELSE IF in.skip_index
         THEN [error |-> None, why |-> None, bgen |-> TRUE, db |-> FALSE]
         ELSE IF in.bgi = "missing"
         THEN [error |-> "IOError", why |-> "no_index",
               bgen |-> TRUE, db |-> FALSE]
         ELSE LET ierr == ConnectIndex(f, idx) IN
              IF ierr # None
              THEN [error |-> "ValueError", why |-> ierr,
                    bgen |-> TRUE, db |-> TRUE]
              ELSE [error |-> None, why |-> None, bgen |-> TRUE, db |-> TRUE]
    ELSE IF in.mode = "w"
    THEN [error |-> "TypeError", why |-> "mode_w",
          bgen |-> FALSE, db |-> FALSE]
    ELSE [error |-> "ValueError", why |-> "mode",
          bgen |-> FALSE, db |-> FALSE]

\* Before PyBGEN(...) is called.
InitOpen ==
    /\ file \in ParFiles
    /\ index \in OpenIndexes(file)
    /\ tell = 0
    /\ it_pure = FALSE
    /\ it_yielded = <<>>
    /\ ret = [op |-> "open"]
    /\ rg = NoRegion
    /\ ParallelUnused
    /\ InfoUnused
    /\ CodecUnused
    /\ inp \in OpenInputs
    /\ lc = [pc |-> "start", error |-> None, why |-> None, closes |-> 0,
             reader |-> NoReader]
    /\ bgen_open = FALSE
    /\ db_open = FALSE

\* PyBGEN(fn, mode, _skip_index=): the constructor returns the reader, with
\* the cursor on the first variant block, or raises.
Open ==
    /\ lc.pc = "start"
    /\ LET r == InitResult(inp, file, index) IN
       /\ lc' = [pc |-> IF r.error = None THEN "open" ELSE "failed",
                 error |-> r.error, why |-> r.why, closes |-> 0,
                 reader |-> IF r.error = None THEN ReaderAttrs(inp.hdr)
                            ELSE NoReader]
       /\ bgen_open' = r.bgen
       /\ db_open' = r.db
       /\ tell' = IF r.error = None THEN FirstVariantBlock(file) ELSE tell
    /\ UNCHANGED << file, index, it_pure, it_yielded, ret, rg,
                    parallelVars, codecVars, infoVars, inp >>

\* close() closing the index connection whatever the reader.
ClosesIndexAlways(in) == TRUE

\* close(): the index connection is closed in read mode, unless the reader
\* was opened without its index.
ClosesIndex(in) == in.mode = "r" /\ ~in.skip_index

\* The attribute self._bgen_db exists once _connect_index has run.
HasIndexHandle(in) == in.mode = "r" /\ ~in.skip_index

\* close(): the exception it raises, None when it returns.  file.close() and
\* Connection.close() do nothing on a closed handle; reading an attribute
\* that was never set raises AttributeError.
CloseError(in) ==
    IF ClosesIndex(in) /\ ~HasIndexHandle(in) THEN "AttributeError" ELSE None

\* close(): close the file, and the index connection of a reader that has
\* one.  Closing a closed file or connection does nothing.
CloseHandles ==
    /\ bgen_open' = FALSE
    /\ db_open' = IF ClosesIndex(inp) /\ HasIndexHandle(inp)
                  THEN FALSE ELSE db_open

\* __enter__: the reader enters a with block.
Enter ==
    /\ lc.pc = "open"
    /\ lc' = [lc EXCEPT !.pc = "with"]
    /\ UNCHANGED << file, index, readerVars, parallelVars, codecVars, infoVars, inp,
                    bgen_open, db_open >>

\* __exit__ at the end of the with block: close().
ExitNormal ==
    /\ lc.pc = "with"
    /\ lc' = [lc EXCEPT !.pc = "exited"]
    /\ CloseHandles
    /\ UNCHANGED << file, index, readerVars, parallelVars, codecVars, infoVars, inp >>

\* __exit__ on an exception raised inside the with block: close(), and the
\* exception goes on to the caller.
ExitException ==
    /\ lc.pc = "with"
    /\ lc' = [lc EXCEPT !.pc = "exited", !.error = "Exception",
                        !.why = "body"]
    /\ CloseHandles
    /\ UNCHANGED << file, index, readerVars, parallelVars, codecVars, infoVars, inp >>

\* close() called by the caller, on a reader in use or already closed.
Close ==
    /\ lc.pc \in {"open", "closed"}
    /\ lc.closes < MaxCloses
    /\ lc' = [lc EXCEPT !.pc = "closed", !.closes = @ + 1,
                        !.error = CloseError(inp)]
    /\ CloseHandles
    /\ UNCHANGED << file, index, readerVars, parallelVars, codecVars, infoVars, inp >>

\* The interpreter frees the half-built reader of a constructor that raised,
\* at a time of its choosing, and with it the handles only that object held.
Finalize ==
    /\ lc.pc = "failed"
    /\ bgen_open \/ db_open
    /\ bgen_open' = FALSE
    /\ db_open' = FALSE
    /\ UNCHANGED << file, index, readerVars, parallelVars, codecVars, infoVars, inp, lc >>

NextOpen ==
    \/ Open
    \/ Enter
    \/ ExitNormal
    \/ ExitException
    \/ Close
    \/ Finalize

SpecOpen == InitOpen /\ [][NextOpen]_vars

\* ------------------------------------------------------ the bit unpacker

\* _pack_bits, first step: the bits of the bytes, each byte's least
\* significant bit first.
BitsOfBytes(data) ==
    [k \in 1..(8 * Len(data)) |->
        BitOf(data[((k - 1) \div 8) + 1], (k - 1) % 8)]

\* np.packbits on one byte of eight bits, the most significant bit first.
PackByte(bits8) ==
    bits8[1] * 128 + bits8[2] * 64 + bits8[3] * 32 + bits8[4] * 16
        + bits8[5] * 8 + bits8[6] * 4 + bits8[7] * 2 + bits8[8]

\* _pack_bits on one row of b bits: the row reversed (data[:, ::-1]), padded
\* on the left with zeros to whole bytes, packed into bytes, and the bytes
\* folded with final = (final << 8) | byte.  The unsigned integer final has up
\* to 32 bits; it is written here in base 256, most significant digit first.
RowValue(row, b) ==
    LET rev == [k \in 1..b |-> row[b + 1 - k]]
        nb_bits == IF b % 8 # 0 THEN ((b + 7) \div 8) * 8 ELSE b
        full_bytes == [k \in 1..nb_bits |->
                          IF k <= nb_bits - b THEN 0
                          ELSE rev[k - (nb_bits - b)]]
    IN [j \in 1..(nb_bits \div 8) |->
           PackByte(SubSeq(full_bytes, (j - 1) * 8 + 1, j * 8))]

\* _pack_bits(data, b): data.shape = (size // b, b) raises ValueError unless
\* the number of bits is a multiple of b; else one value per row of b bits.
PackBits(data, b) ==
    LET bits == BitsOfBytes(data)
        rows == Len(bits) \div b
    IN IF rows * b # Len(bits)
       THEN [state |-> "done", error |-> "ValueError", values |-> <<>>]
       ELSE [state |-> "done", error |-> None,
             values |-> [r \in 1..rows |->
                 RowValue(SubSeq(bits, (r - 1) * b + 1, r * b), b)]]

\* A word read with its most significant byte first.
WordBigEndian(word) == word

\* A word of np.uint8/16/32 read from a buffer: the first byte is the least
\* significant one (the byte order of the hosts numpy is built for).
WordLittleEndian(word) == [k \in 1..Len(word) |-> word[Len(word) + 1 - k]]

\* np.frombuffer(data, dtype=np.uint<b>): ValueError unless the buffer is a
\* whole number of words.
FromBuffer(data, b) ==
    LET size == b \div 8 IN
    IF Len(data) % size # 0
    THEN [state |-> "done", error |-> "ValueError", values |-> <<>>]
    ELSE [state |-> "done", error |-> None,
          values |-> [r \in 1..(Len(data) \div size) |->
              WordLittleEndian(SubSeq(data, (r - 1) * size + 1, r * size))]]

\* The widths the decoder reads with np.frombuffer.
FastWidths == {8, 16, 32}

\* The bit widths of the byte strings handed to the unpacker.
PackWidths == {1, 2, 3, 5, 8, 9, 16, 24, 32}

\* The most values packed in a byte string, and the most bytes of a byte
\* string that was not made by packing values.
MaxValues == 2

MaxBytes == 4

\* Bytes byte strings are made of.
ByteSet == {0, 1, 128, 165}

\* Values of b bits, as their bits from the least significant one: zero, one,
\* the most significant bit alone, and all bits set.
ValueSet(b) ==
    { [k \in 1..b |-> 0],
      [k \in 1..b |-> IF k = 1 THEN 1 ELSE 0],
      [k \in 1..b |-> IF k = b THEN 1 ELSE 0],
      [k \in 1..b |-> 1] }

\* The BGEN packing of values of b bits: the bits of the values end to end,
\* bit 0 of byte 0 being the least significant bit of the first value, and
\* the last byte filled with zeros.
PackValues(values, b) ==
    LET nbits == Len(values) * b
        nbytes == (nbits + 7) \div 8
        bit(p) == IF p < nbits
                  THEN values[(p \div b) + 1][(p % b) + 1] ELSE 0
    IN [j \in 1..nbytes |->
           bit((j - 1) * 8) + 2 * bit((j - 1) * 8 + 1)
             + 4 * bit((j - 1) * 8 + 2) + 8 * bit((j - 1) * 8 + 3)
             + 16 * bit((j - 1) * 8 + 4) + 32 * bit((j - 1) * 8 + 5)
             + 64 * bit((j - 1) * 8 + 6) + 128 * bit((j - 1) * 8 + 7)]

\* What the unpacker is handed: a packing of values, or any byte string read
\* at a byte-aligned width.
PackedInputs ==
    UNION { { [b |-> b, values |-> v, packed |-> TRUE,
               data |-> PackValues(v, b)] :
              v \in UNION { [1..m -> ValueSet(b)] : m \in 1..MaxValues } } :
            b \in PackWidths }

RawInputs ==
    { [b |-> b, values |-> <<>>, packed |-> FALSE, data |-> d] :
        b \in FastWidths,
        d \in UNION { [1..n -> ByteSet] : n \in 1..MaxBytes } }

InitUnpack ==
    /\ file \in {f \in ParFiles : Len(f.blocks) = 1}
    /\ index = IndexInFileOrder(file)
    /\ tell = FirstVariantBlock(file)
    /\ it_pure = FALSE
    /\ it_yielded = <<>>
    /\ ret = [op |-> "open"]
    /\ rg = NoRegion
    /\ ParallelUnused
    /\ InfoUnused
    /\ ReaderOpened
    /\ blk = [layout |-> 0]
    /\ dec = NotDecoded
    /\ pk \in PackedInputs \cup RawInputs
    /\ unp = [generic |-> NotDecoded, fast |-> NotDecoded]

\* _pack_bits(data, b) is called on the byte string.
CallPackBits ==
    /\ unp.generic = NotDecoded
    /\ unp' = [unp EXCEPT !.generic = PackBits(pk.data, pk.b)]
    /\ UNCHANGED << file, index, readerVars, parallelVars, openVars,
                    infoVars, blk, dec, pk >>

\* np.frombuffer(data, dtype) is called on the byte string, at a width that
\* has a dtype.
CallFromBuffer ==
    /\ unp.fast = NotDecoded
    /\ pk.b \in FastWidths
    /\ unp' = [unp EXCEPT !.fast = FromBuffer(pk.data, pk.b)]
    /\ UNCHANGED << file, index, readerVars, parallelVars, openVars,
                    infoVars, blk, dec, pk >>

NextUnpack ==
    \/ CallPackBits
    \/ CallFromBuffer

SpecUnpack == InitUnpack /\ [][NextUnpack]_vars

\* --------------------------------------------- the variant block decoder

\* prob_t, as a fraction << numerator, denominator >>: 0, 1/2 and 1.
Thresholds == { << 0, 1 >>, << 1, 2 >>, << 1, 1 >> }

\* The bytes of the per-sample ploidy and missingness list: ploidy 2, ploidy
\* 2 with bit 6 set, and ploidy 2 with bit 7 set.
PloidyBytes == {2, 66, 130}

\* The bit widths of the layout-2 blocks decoded.
Widths == {2, 4, 8}

\* The stored numerators of a layout-2 probability of b bits.
NumeratorSet(b) == {0, 1, Pow2(b) - 1}

\* The stored u16 numerators of a layout-1 probability.
U16s == {0, 16384, 32768, 65535}

\* The bits of an integer of b bits, the least significant one first.
IntToBits(n, b) == [k \in 1..b |-> BitOf(n, k - 1)]

\* The integer written in base 256, most significant digit first.
RECURSIVE DigitsToInt(_)
DigitsToInt(d) ==
    IF d = <<>> THEN 0
    ELSE 256 * DigitsToInt(SubSeq(d, 1, Len(d) - 1)) + d[Len(d)]

\* The rows of an (N, w) array laid end to end.
Flatten(rows, w) ==
    [k \in 1..(Len(rows) * w) |-> rows[((k - 1) \div w) + 1][((k - 1) % w) + 1]]

\* The probability data of a layout-2 block: its numerators packed at b bits.
PackNumerators(flat, b) ==
    LET values == [k \in DOMAIN flat |-> IntToBits(flat[k], b)]
    IN PackValues(values, b)

\* A layout-1 block of a file of N samples: its leading number of samples n
\* and three u16 per sample.
Layout1Block(N, n, z, t, rp, p) ==
    [layout |-> 1, nb_samples |-> N, n |-> n, is_compressed |-> z,
     prob_t |-> t,
     return_probs |-> rp, nb_alleles |-> 2, min_ploidy |-> 2,
     max_ploidy |-> 2, ploidy |-> [i \in 1..N |-> 2], phased |-> 0,
     b |-> 16, probs |-> p, data |-> Flatten(p, 3)]

\* A layout-2 block of a file of N samples: its number of samples n, the
\* number of alleles, the least and the greatest ploidy, a ploidy byte per
\* sample, the phased flag, the bit width, and two packed numerators per
\* sample.
Layout2Block(N, n, z, t, rp, na, lo, hi, pl, ph, b, p) ==
    [layout |-> 2, nb_samples |-> N, n |-> n, is_compressed |-> z,
     prob_t |-> t,
     return_probs |-> rp, nb_alleles |-> na, min_ploidy |-> lo,
     max_ploidy |-> hi, ploidy |-> pl, phased |-> ph, b |-> b,
     probs |-> p, data |-> PackNumerators(Flatten(p, 2), b)]

\* A float that is NaN, and the float num / den.
NaN == [nan |-> TRUE, num |-> 0, den |-> 1]

Float(num, den) == [nan |-> FALSE, num |-> num, den |-> den]

\* probs >= self.prob_t for the probability num / den.
AtLeast(num, den, t) == num * t[2] >= t[1] * den

\* _get_curr_variant_data raised ValueError before returning anything.
DecodeError(why, read) ==
    [state |-> "done", error |-> "ValueError", why |-> why, read |-> read,
     data |-> <<>>]

\* The length zlib gives 6N bytes (a stored block: 2 + 5 + 4 bytes around).
ZlibSize(nbytes) == nbytes + 11

\* The bytes a block's probability data takes in the file, after the alleles.
PayloadSize(k) ==
    LET raw == IF k.layout = 1 THEN 2 * Len(k.data)
               ELSE 10 + k.nb_samples + Len(k.data)
    IN IF k.layout = 1
       THEN (IF k.is_compressed THEN 4 + ZlibSize(raw) ELSE raw)
       ELSE (IF k.is_compressed THEN 8 + ZlibSize(raw) ELSE 4 + raw)

\* _layout_1_probs_to_dosage: low quality unless a probability reaches
\* prob_t.
GoodProbsLayout1(p, t) == \E j \in 1..3 : AtLeast(p[j], 32768, t)

\* _layout_1_probs_to_dosage on one row of u16 numerators.
Layout1Dosage(p, t) ==
    IF t[1] > 0 /\ ~GoodProbsLayout1(p, t) THEN NaN
    ELSE Float(2 * p[3] + p[2], 32768)

\* _get_curr_variant_probs_layout_1, then the dosage or the probabilities.
\* Without compression c is the number of samples: c bytes are read and
\* np.frombuffer takes them as u16, so the reshape to (N, 3) fails.
DecodeLayout1(k) ==
    LET N == k.nb_samples
        c == IF k.is_compressed THEN ZlibSize(2 * Len(k.data)) ELSE N
        read == IF k.is_compressed THEN 4 + c ELSE c
        nbytes == IF k.is_compressed THEN 2 * Len(k.data) ELSE c
        words == SubSeq(k.data, 1, nbytes \div 2)
    IN IF nbytes % 2 # 0 THEN DecodeError("buffer", read)
       ELSE IF Len(words) # 3 * N THEN DecodeError("shape", read)
       ELSE [state |-> "done", error |-> None, why |-> None, read |-> read,
             data |-> [i \in 1..N |->
                 LET p == SubSeq(words, 3 * i - 2, 3 * i) IN
                 IF k.return_probs
                 THEN << Float(p[1], 32768), Float(p[2], 32768),
                         Float(p[3], 32768) >>
                 ELSE << Layout1Dosage(p, k.prob_t) >>]]

\* The ploidy check of a layout-2 block: what makes it raise.
PloidyRejected(min_ploidy, max_ploidy) == min_ploidy # 2 /\ max_ploidy # 2

\* is_phased = data[0] == 1
IsPhased(flag) == flag = 1

\* A sample is missing when bit 6 of its ploidy byte is set.
MissingBit6(byte) == BitOf(byte, 6) = 1

\* missing_data = ploidy_info[:, 0] == 1: np.unpackbits puts the most
\* significant bit of each byte in column 0.
Missing(byte) == BitOf(byte, 7) = 1

\* The threshold read on the two stored probabilities only.
GoodProbsStoredOnly(a, h, den, t) ==
    AtLeast(a, den, t) \/ AtLeast(h, den, t)

\* _layout_2_probs_to_dosage: good_probs.
GoodProbsLayout2(a, h, den, t) ==
    \/ AtLeast(a, den, t)
    \/ AtLeast(h, den, t)
    \/ AtLeast(den - a - h, den, t)

\* _layout_2_probs_to_dosage on one row: last_probs = 1 - (a + h) / den and
\* dosage = 2 * last_probs + h / den.
Layout2Dosage(a, h, den, t) ==
    IF t[1] > 0 /\ ~GoodProbsLayout2(a, h, den, t) THEN NaN
    ELSE Float(2 * (den - a - h) + h, den)

\* _get_curr_variant_probs_layout_2, then the dosage or the probabilities,
\* then the missing samples set to NaN.
DecodeLayout2(k) ==
    LET N == k.nb_samples
        read == PayloadSize(k)
        den == Pow2(k.b) - 1
        u == IF k.b \in FastWidths THEN FromBuffer(k.data, k.b)
             ELSE PackBits(k.data, k.b)
    IN IF SampleCountDiffers(k.n, N) THEN DecodeError("n", read)
       ELSE IF k.nb_alleles # 2 THEN DecodeError("alleles", read)
       ELSE IF PloidyRejected(k.min_ploidy, k.max_ploidy)
       THEN DecodeError("ploidy", read)
       ELSE IF IsPhased(k.phased) THEN DecodeError("phased", read)
       ELSE IF u.error # None THEN DecodeError("unpack", read)
       ELSE IF Len(u.values) # 2 * N THEN DecodeError("shape", read)
       ELSE [state |-> "done", error |-> None, why |-> None, read |-> read,
             data |-> [i \in 1..N |->
                 LET a == DigitsToInt(u.values[2 * i - 1])
                     h == DigitsToInt(u.values[2 * i])
                 IN IF k.return_probs
                    THEN (IF Missing(k.ploidy[i]) THEN << NaN, NaN, NaN >>
                          ELSE << Float(a, den), Float(h, den),
                                  Float(den - a - h, den) >>)
                    ELSE (IF Missing(k.ploidy[i]) THEN << NaN >>
                          ELSE << Layout2Dosage(a, h, den, k.prob_t) >>)]]

\* A reader on a file of the block's layout and compression, its cursor after
\* the alleles of a variant block.
InitDecode ==
    /\ file \in {f \in ParFiles : Len(f.blocks) = 1}
    /\ index = IndexInFileOrder(file)
    /\ tell = FirstVariantBlock(file)
    /\ it_pure = FALSE
    /\ it_yielded = <<>>
    /\ ret = [op |-> "open"]
    /\ rg = NoRegion
    /\ ParallelUnused
    /\ InfoUnused
    /\ \E N \in 1..MaxSamples, z \in BOOLEAN, t \in Thresholds,
          rp \in BOOLEAN :
          \/ \E p \in [1..N -> U16s \X U16s \X U16s] :
                blk = Layout1Block(N, N, z, t, rp, p)
          \/ \E na \in {2, 3}, lo \in {1, 2}, hi \in {2, 3},
                pl \in [1..N -> PloidyBytes], ph \in {0, 1, 2},
                b \in Widths :
                \E p \in [1..N -> NumeratorSet(b) \X NumeratorSet(b)] :
                    blk = Layout2Block(N, N, z, t, rp, na, lo, hi, pl, ph,
                                       b, p)
    /\ dec = NotDecoded
    /\ pk = [b |-> 0]
    /\ unp = [generic |-> NotDecoded, fast |-> NotDecoded]
    /\ inp = [GoodInput EXCEPT
                 !.hdr.flags0 = blk.layout * 4
                                   + (IF blk.is_compressed THEN 1 ELSE 0),
                 !.hdr.nb_samples = blk.nb_samples,
                 !.hdr.sblock.n = blk.nb_samples]
    /\ lc = [pc |-> "open", error |-> None, why |-> None, closes |-> 0,
             reader |-> ReaderAttrs(inp.hdr)]
    /\ bgen_open = TRUE
    /\ db_open = TRUE

\* _read_current_variant on the block: _get_curr_variant_info compares the
\* leading n of a layout-1 block, then _get_curr_variant_data decodes the
\* probabilities through self._decompress, an attribute the reader has only
\* if _parse_header_block assigned it.
ReadBlock(k, reader) ==
    IF k.layout = 1 /\ SampleCountDiffers(k.n, k.nb_samples)
    THEN DecodeError("n", 0)
    ELSE IF reader.decompress = None
    THEN [DecodeError("decompress", 0) EXCEPT !.error = "AttributeError"]
    ELSE IF k.layout = 1 THEN DecodeLayout1(k)
    ELSE DecodeLayout2(k)

\* The reader reads the variant block under its cursor: the probabilities or
\* the dosage of the block, or the error of the read.
GetCurrVariantData ==
    /\ lc.pc = "open"
    /\ dec = NotDecoded
    /\ dec' = ReadBlock(blk, lc.reader)
    /\ UNCHANGED << file, index, readerVars, parallelVars, openVars,
                    infoVars, blk, pk, unp >>

NextDecode == GetCurrVariantData

SpecDecode == InitDecode /\ [][NextDecode]_vars

\* A file whose header parses up to its sample block, with its index, and
\* its first variant block: PyBGEN(fn) has not been called yet.
InitRead ==
    /\ file \in {f \in ParFiles : Len(f.blocks) = 1}
    /\ index = IndexInFileOrder(file)
    /\ tell = 0
    /\ it_pure = FALSE
    /\ it_yielded = <<>>
    /\ ret = [op |-> "open"]
    /\ rg = NoRegion
    /\ ParallelUnused
    /\ InfoUnused
    /\ inp \in [mode : {"r"}, skip_index : {FALSE},
                 hdr : [magic : {<< 98, 103, 101, 110 >>},
                        flags0 : {l * 4 + c : l \in {1, 2}, c \in 0..3},
                        flags3 : {0, 128},
                        nb_samples : 1..MaxSamples,
                        sblock : {sb \in SampleBlocks : sb.fits}],
                 has_zstd : {TRUE}, bgi : {"present"}]
    /\ lc = [pc |-> "start", error |-> None, why |-> None, closes |-> 0,
             reader |-> NoReader]
    /\ bgen_open = FALSE
    /\ db_open = FALSE
    /\ \E n \in 1..(MaxSamples + 1), rp \in BOOLEAN :
          LET N == inp.hdr.nb_samples
              z == Compression(inp.hdr) \in {1, 2}
              t == << 1, 2 >>
          IN IF Layout(inp.hdr) = 1
             THEN \E p \in [1..N -> U16s \X U16s \X U16s] :
                      blk = Layout1Block(N, n, z, t, rp, p)
             ELSE \E pl \in [1..N -> PloidyBytes], b \in Widths :
                      \E p \in [1..N -> NumeratorSet(b) \X NumeratorSet(b)] :
                          blk = Layout2Block(N, n, z, t, rp, 2, 2, 2, pl, 0,
                                             b, p)
    /\ dec = NotDecoded
    /\ pk = [b |-> 0]
    /\ unp = [generic |-> NotDecoded, fast |-> NotDecoded]

\* PyBGEN(fn) and then the read of the first variant block.
NextRead ==
    \/ Open
    \/ GetCurrVariantData

SpecRead == InitRead /\ [][NextRead]_vars

\* ------------------------------------- claims on the sequential reader

\* The record of the i-th variant block of the file.
RecordOfBlock(i) ==
    [name |-> file.blocks[i].rsid, chrom |-> file.blocks[i].chrom,
     pos |-> file.blocks[i].pos, data |-> i]

\* The header's nb_variants.
NbVariants == Len(file.blocks)

\* C2: after iter_variants(), next() alone yields the variant blocks one by one
\* in ascending file-offset order; the cursor is past the index's maximum
\* file_start_position exactly when all nb_variants records have been yielded,
\* and StopIteration is raised then and only then, with no read past the last
\* block.
C2_SequentialIteration ==
    it_pure =>
        /\ Len(it_yielded) <= NbVariants
        /\ \A k \in DOMAIN it_yielded : it_yielded[k] = RecordOfBlock(k)
        /\ tell = BlockStart(file, Len(it_yielded) + 1)
        /\ (tell > LastVariantBlock(index)) <=> (Len(it_yielded) = NbVariants)
        /\ ret.op = "next" =>
              /\ ret.stop <=> (ret.rec = NoRecord)
              /\ ret.stop => Len(it_yielded) = NbVariants
              /\ ~ret.stop => ret.rec = it_yielded[Len(it_yielded)]

\* The iteration of a file of several blocks has ended: every record was
\* yielded and next() raised StopIteration.
C2_Witness ==
    /\ it_pure
    /\ NbVariants >= 2
    /\ ret.op = "next" /\ ret.stop
    /\ Len(it_yielded) = NbVariants

\* The index rows whose rsid is name, as positions in the enumeration.
RowsNamed(name) == {k \in DOMAIN index : index[k].rsid = name}

\* Record rec is the decoding of the block that index row k points to.
RecordOfRow(rec, k) ==
    /\ rec # NoRecord
    /\ rec.data \in DOMAIN file.blocks
    /\ BlockStart(file, rec.data) = index[k].file_start_position
    /\ rec.name = index[k].rsid
    /\ rec.chrom = index[k].chromosome
    /\ rec.pos = index[k].position

\* C6: get_variant(name) returns one record per index row whose rsid is name,
\* in enumeration order; it raises ValueError iff there is no such row, so its
\* result is non-empty exactly for the names iter_variant_info() enumerates.
C6_GetVariant ==
    ret.op = "get_variant" =>
        LET rows == RowsNamed(ret.name) IN
        /\ Len(ret.results) = Cardinality(rows)
        /\ \A k \in rows :
              RecordOfRow(ret.results[Cardinality({j \in rows : j <= k})], k)
        /\ (ret.error = "ValueError") <=> (rows = {})
        /\ (ret.error = None) <=> (ret.results # <<>>)
        /\ (ret.results # <<>>) <=> (ret.name \in VariantInfoNames(index))

\* get_variant returned the two records of a duplicated rsid.
C6_Witness ==
    /\ ret.op = "get_variant"
    /\ Len(ret.results) = 2
    /\ ret.results[1] # ret.results[2]
    /\ ret.error = None

\* The index rows of the region of the generator's arguments.
RowsInRegion(args) ==
    {k \in DOMAIN index :
        /\ index[k].chromosome = args[1]
        /\ args[2] <= index[k].position
        /\ index[k].position <= args[3]}

\* C7: iter_variants_in_region(c, s, e), run to its end, has yielded exactly
\* the variants with chromosome = c and s <= position <= e, each once (and so
\* nothing when the region is empty or s > e); before its end it has yielded
\* only such variants, none twice.
C7_Region ==
    rg.pc \in {"running", "done"} =>
        LET rows == RowsInRegion(rg.args) IN
        /\ \A j \in DOMAIN rg.out : \E k \in rows : RecordOfRow(rg.out[j], k)
        /\ \A i, j \in DOMAIN rg.out : rg.out[i] = rg.out[j] => i = j
        /\ rg.pc = "done" =>
              /\ Len(rg.out) = Cardinality(rows)
              /\ rg.args[2] > rg.args[3] => rg.out = <<>>

\* A region iteration ended having yielded two variants and left one out.
C7_Witness ==
    /\ rg.pc = "done"
    /\ Len(rg.out) = 2
    /\ NbVariants > 2
    /\ rg.args[2] = rg.args[3]

\* C8: iter_variants() leaves the cursor on the first variant block whatever
\* the cursor was; the first record next() yields after it is the first
\* variant of the file, and the iteration then ends only after the whole file.
C8_IterVariantsResets ==
    /\ ret.op = "iter_variants" => tell = FirstVariantBlock(file)
    /\ (it_pure /\ it_yielded # <<>>) => it_yielded[1] = RecordOfBlock(1)
    /\ (it_pure /\ ret.op = "next" /\ ret.stop) =>
           \A i \in DOMAIN file.blocks :
               \E k \in DOMAIN it_yielded : it_yielded[k] = RecordOfBlock(i)

\* iter_variants() was called with the cursor at the end of the file and a
\* region iteration under way.
C8_Witness ==
    /\ ret.op = "iter_variants"
    /\ ret.from = EndOfFile(file)
    /\ rg.pc = "running"
    /\ tell = FirstVariantBlock(file)
    /\ NbVariants >= 2

\* The call before the last next() was a lookup that read a block.
AfterLookup ==
    /\ ret.op = "next"
    /\ \/ ret.after.op = "get_variant" /\ ret.after.error = None
       \/ ret.after.op = "region_next" /\ ~ret.after.stop

\* The block that lookup read last: for get_variant the block of the last
\* index row of the name, for a region step the block of the record yielded.
LastBlockRead ==
    IF ret.after.op = "get_variant"
    THEN LET rows == RowsNamed(ret.after.name)
             last == CHOOSE k \in rows : \A j \in rows : j <= k
         IN BlockAt(file, index[last].file_start_position)
    ELSE ret.after.rec.data

\* C30: the next() that follows get_variant(name) or a step of a region
\* iteration yields the block after the last block that lookup read, and
\* raises StopIteration exactly when that block was the last of the file,
\* wherever the sequential iteration was before, at its end included.
C30_SharedCursor ==
    AfterLookup =>
        IF LastBlockRead = NbVariants
        THEN ret.stop
        ELSE ~ret.stop /\ ret.rec = RecordOfBlock(LastBlockRead + 1)

\* The sequential iteration was at its end, get_variant read a block that is
\* not the last of the file, and next() yielded the block after it.
C30_Witness ==
    /\ AfterLookup
    /\ ret.after.op = "get_variant"
    /\ ret.after.ended
    /\ ~ret.stop
    /\ ret.rec = RecordOfBlock(LastBlockRead + 1)
    /\ LastBlockRead + 1 < NbVariants
\* The multiset of the elements of a sequence.
SeqToBag(s) ==
    [x \in SeqToSet(s) |-> Cardinality({k \in DOMAIN s : s[k] = x})]

\* C28: a generator of iter_variant_info that has ended has yielded every row
\* of the index exactly once, whatever was called on the reader between its
\* steps; before its end it has yielded no row more often than the index
\* holds it.
C28_VariantInfoComplete ==
    \A g \in InfoGens :
        /\ vi[g].pc = "done" =>
              SeqToBag(vi[g].out) = SeqToBag(SelectVariantInfo(index))
        /\ vi[g].pc = "running" =>
              SeqToBag(vi[g].out) \sqsubseteq SeqToBag(SelectVariantInfo(index))
\* --------------------------------------- claims on the parallel reader

\* The record of the variant block at file offset o.
RecordAtSeek(o) == RecordOfBlock(BlockAt(file, o))

\* C1: a parallel iter_variants() run to exhaustion has yielded the same
\* multiset of records as the sequential iter_variants(), for every number of
\* workers and every interleaving of them; before its end it has yielded no
\* record more often than the sequential iteration does.
C1_ParallelSameMultiset ==
    \A g \in Gens :
        gen[g].kind = "all" =>
            LET seq == SeqToBag(SequentialRecords(file, index))
                par == SeqToBag(gen[g].out)
            IN /\ \A x \in DOMAIN par : x \in DOMAIN seq /\ par[x] <= seq[x]
               /\ gen[g].pc = "done" => par = seq

\* Two workers have delivered a whole file of three variants, in another order
\* than the sequential reader's.
C1_Witness ==
    \E g \in Gens :
        /\ gen[g].kind = "all"
        /\ gen[g].pc = "done"
        /\ cpus = 2
        /\ Len(gen[g].out) = 3
        /\ gen[g].out # SequentialRecords(file, index)

\* The records worker i of generator g has put on the queue so far.
PutBy(g, i) ==
    {RecordAtSeek(gen[g].stripes[i][k]) : k \in 1..wk[g][i].pos}

\* C3 (safety part): the consumer stops only after cpus sentinels, and then
\* the queue is empty and every record a worker has put was yielded.
C3_StopsAfterAllSentinels ==
    /\ gen[1].nb_finish <= cpus
    /\ gen[1].pc = "done" =>
          /\ gen[1].nb_finish = cpus
          /\ gen[1].queue = <<>>
          /\ \A i \in DOMAIN wk[1] :
                /\ wk[1][i].pos = Len(gen[1].stripes[i])
                /\ PutBy(1, i) \subseteq SeqToSet(gen[1].out)

\* C3: when no worker fails, a parallel iteration that the consumer runs to
\* exhaustion terminates, for every number of workers, every queue capacity
\* and every stripe size (empty stripes too); it stops exactly when it has
\* seen cpus sentinels, every record put by then being yielded.
C3_ConsumerTerminates ==
    /\ [] C3_StopsAfterAllSentinels
    /\ (gen[1].pc = "created") ~> (gen[1].pc = "done")

\* An iteration over a file of one variant by two workers, one with an empty
\* stripe, on a queue of capacity 1, has terminated.
C3_Witness ==
    /\ gen[1].pc = "done"
    /\ cpus = 2
    /\ max_variants = 1
    /\ Len(gen[1].stripes[2]) = 0
    /\ Len(gen[1].out) = 1

\* C4: when the consumer of a parallel iteration has exited (exhaustion, or
\* the generator closed early or dropped on an exception), none of the workers
\* spawned for that iteration is still running.
C4_WorkersTerminatedAtExit ==
    \A g \in Gens :
        gen[g].pc \in {"done", "closed"} =>
            \A i \in DOMAIN wk[g] : wk[g][i].st # "run"

\* A worker of the iteration has failed.
WorkerFailed == \E i \in DOMAIN wk[1] : wk[1][i].st = "failed"

\* The consumer is inside next(), waiting on an empty queue that no worker
\* will put on again, having yielded every record the workers have put.
BlockedForever ==
    /\ gen[1].pc = "running"
    /\ gen[1].queue = <<>>
    /\ gen[1].nb_finish < cpus
    /\ \A i \in DOMAIN wk[1] :
          /\ wk[1][i].st \in {"failed", "exit"}
          /\ wk[1][i].st = "exit" => wk[1][i].pos = Len(gen[1].stripes[i])
          /\ PutBy(1, i) \subseteq SeqToSet(gen[1].out)

\* C26: once a worker has failed before its sentinel, the consumer never sees
\* cpus sentinels and never ends; the records of the other stripes are still
\* yielded, and the consumer ends up waiting on the drained queue forever.
C26_FailedWorkerBlocksConsumer ==
    /\ [](WorkerFailed =>
            /\ gen[1].pc \in {"running", "yielded"}
            /\ gen[1].nb_finish < cpus)
    /\ WorkerFailed ~> [] BlockedForever

\* One of two workers failed on its first offset; the other put its records
\* and its sentinel, the consumer yielded them and now waits.
C26_Witness ==
    /\ BlockedForever
    /\ cpus = 2
    /\ \E i, j \in DOMAIN wk[1] :
          /\ wk[1][i].st = "failed"
          /\ wk[1][i].pos = 0
          /\ wk[1][j].st = "exit"
          /\ Len(gen[1].stripes[j]) > 0
          /\ Len(gen[1].out) = Len(gen[1].stripes[j])
\* C27: with two iterations of one reader live at once, the step in which one
\* of them exits (exhaustion or close) terminates no worker of the other
\* iteration and leaves none of its own workers running.
C27_ExitTerminatesOwnWorkersOnly ==
    [][\A g \in Gens :
          (/\ gen[g].pc \in {"running", "yielded"}
           /\ gen'[g].pc \in {"done", "closed"}) =>
              /\ \A h \in Gens \ {g} : wk'[h] = wk[h]
              /\ \A i \in DOMAIN wk'[g] : wk'[g][i].st # "run"]_vars
\* C5: two records of the same stripe are yielded in the order of the stripe's
\* offset list: the later one is never yielded before or without the earlier.
C5_StripeOrder ==
    \A g \in Gens :
        \A i \in DOMAIN gen[g].stripes :
            \A a, b \in DOMAIN gen[g].stripes[i] :
                a < b =>
                    \A kb \in DOMAIN gen[g].out :
                        gen[g].out[kb] = RecordAtSeek(gen[g].stripes[i][b]) =>
                            \E ka \in 1..(kb - 1) :
                                gen[g].out[ka] = RecordAtSeek(gen[g].stripes[i][a])

\* Two records of one stripe were yielded in order while a record of another
\* stripe came before a record that precedes it in the file.
C5_Witness ==
    \E g \in Gens :
        /\ cpus = 2
        /\ Len(gen[g].stripes) = 2
        /\ Len(gen[g].stripes[1]) = 2
        /\ Len(gen[g].stripes[2]) = 1
        /\ \E ka, kb \in DOMAIN gen[g].out :
              /\ ka < kb
              /\ gen[g].out[ka] = RecordAtSeek(gen[g].stripes[1][1])
              /\ gen[g].out[kb] = RecordAtSeek(gen[g].stripes[1][2])
        /\ \E k1, k2 \in DOMAIN gen[g].out :
              /\ k1 < k2
              /\ gen[g].out[k1] = RecordAtSeek(gen[g].stripes[2][1])
              /\ gen[g].out[k2] = RecordAtSeek(gen[g].stripes[1][1])

\* The offsets of the index rows whose rsid is one of names.
SeeksNamed(names) ==
    {index[k].file_start_position :
        k \in {j \in DOMAIN index : index[j].rsid \in SeqToSet(names)}}

\* C23: the queue of a parallel iteration never holds more than max_variants
\* items (records and sentinels together): a put on a full queue waits.
C23_QueueBounded ==
    \A g \in Gens : Len(gen[g].queue) <= max_variants

\* The queue is full while a running worker has a record or its sentinel left
\* to put: that worker waits for the consumer.
C23_Witness ==
    \E g \in Gens :
        /\ gen[g].pc \in {"running", "yielded"}
        /\ Len(gen[g].queue) = max_variants
        /\ \E i \in DOMAIN wk[g] :
              /\ wk[g][i].st = "run"
              /\ wk[g][i].pos < Len(gen[g].stripes[i])

\* The number of items of the stripes of generator g.
RECURSIVE StripesSize(_, _)
StripesSize(st, j) ==
    IF j = 0 THEN 0 ELSE Len(st[j]) + StripesSize(st, j - 1)

\* The list the stripes st were cut from, if they are its round-robin stripes:
\* position p (from 0) is item p \div W of stripe p % W.
Interleaved(st) ==
    LET W == Len(st)
    IN [p \in 1..StripesSize(st, W) |->
            st[((p - 1) % W) + 1][((p - 1) \div W) + 1]]

\* The stripes st are the round-robin stripes of a list: stripe i (from 0)
\* has as many items as there are positions i, i + W, i + 2W, ... in it.
RoundRobinSizes(st) ==
    LET W == Len(st)
        n == StripesSize(st, W)
    IN \A j \in 1..W : Len(st[j]) = (n - (j - 1) + W - 1) \div W

\* C24: the stripes of a parallel iteration are the round-robin stripes of one
\* list over cpus workers: they partition its positions, their sizes differ by
\* at most one, and for iter_variants() the list is every offset of the index
\* in ascending order (for iter_variants_by_names the resolved offsets).
C24_RoundRobinStripes ==
    \A g \in Gens :
        gen[g].pc \notin {"none", "collected"} =>
            LET st == gen[g].stripes
                L == Interleaved(st)
            IN /\ Len(st) = cpus
               /\ RoundRobinSizes(st)
               /\ \A i, j \in 1..cpus : Len(st[i]) - Len(st[j]) <= 1
               /\ gen[g].kind = "all" =>
                     /\ Len(L) = Len(index)
                     /\ SeqToSet(L) =
                           {index[k].file_start_position : k \in DOMAIN index}
                     /\ \A p, q \in DOMAIN L : p < q => L[p] < L[q]
               /\ gen[g].kind = "names" =>
                     /\ SeqToSet(L) = SeeksNamed(gen[g].names)
                     /\ Len(L) = Cardinality(SeeksNamed(gen[g].names))

\* Three offsets of an index that lists them in descending order are striped
\* over two workers: two offsets for the first, one for the second.
C24_Witness ==
    \E g \in Gens :
        /\ gen[g].pc \notin {"none", "collected"}
        /\ gen[g].kind = "all"
        /\ cpus = 2
        /\ Len(index) = 3
        /\ index[1].file_start_position > index[2].file_start_position
        /\ Len(gen[g].stripes[1]) = 2
        /\ Len(gen[g].stripes[2]) = 1
\* C9: every call of iter_variants_by_names(names) on an open reader, the
\* first and the later ones, resolves exactly the offsets of the index rows
\* whose rsid is in that call's names.
C9_ByNamesEveryCall ==
    pret.op = "iter_variants_by_names" =>
        /\ pret.error = None
        /\ SeqToSet(pret.seeks) = SeeksNamed(pret.names)
        /\ Len(pret.seeks) = Cardinality(SeeksNamed(pret.names))

\* ----------------------------------- claims on opening and closing

\* C11: close() is idempotent: on a reader opened in read mode, with its
\* index or without it, every call of close(), the first and each one after
\* it, raises nothing and leaves the file handle and the index connection
\* released.
C11_CloseIdempotent ==
    lc.pc = "closed" =>
        /\ inp.mode = "r"
        /\ lc.error = None
        /\ ~bgen_open
        /\ ~db_open

\* close() was called a second time, on a reader opened without its index.
C11_Witness ==
    /\ lc.pc = "closed"
    /\ lc.closes = 2
    /\ inp.skip_index
    /\ ~bgen_open

\* C12: PyBGEN(fn, mode="w") raises the not-implemented error, which is not
\* the error of an invalid mode string, and opens no file.
C12_WriteModeNotImplemented ==
    (lc.pc = "failed" /\ inp.mode = "w") =>
        /\ lc.error = "NotImplementedError"
        /\ ~bgen_open
        /\ ~db_open

\* C13: a reader opened with its index exists only if the Variant table has
\* as many rows as the header has variants and its least
\* file_start_position is the header's offset + 4; when either differs the
\* constructor raises and returns no reader.
C13_IndexConsistent ==
    (lc.pc # "start" /\ inp.mode = "r" /\ ~inp.skip_index) =>
        LET consistent ==
                /\ Len(index) = HeaderNbVariants(file)
                /\ \E k \in DOMAIN index :
                      /\ index[k].file_start_position = file.offset + 4
                      /\ \A j \in DOMAIN index :
                            index[j].file_start_position
                                >= index[k].file_start_position
        IN /\ lc.pc # "failed" => consistent
           /\ ~consistent => lc.pc = "failed" /\ lc.error # None
           /\ lc.why \in {"index_count", "index_first"} => ~consistent

\* The constructor refused an index with the right number of rows whose
\* first offset is not the header's.
C13_Witness ==
    /\ lc.pc = "failed"
    /\ lc.why = "index_first"
    /\ Len(index) = HeaderNbVariants(file)
    /\ inp.bgi = "present"

\* C22: the header parser accepts a file only if its magic bytes are "bgen"
\* or all zero and its layout, bits 2..5 of the flags word, is 1 or 2; layout
\* 0 and the layouts above 2 are refused with ValueError; the compression
\* is bits 0..1 and the sample-identifiers flag bit 31 of the same word.
C22_HeaderAccepted ==
    (lc.pc # "start" /\ inp.mode = "r") =>
        LET layout == (inp.hdr.flags0 \div 4) % 16
            magic_ok == \/ inp.hdr.magic = << 98, 103, 101, 110 >>
                        \/ inp.hdr.magic = << 0, 0, 0, 0 >>
        IN /\ lc.pc # "failed" => magic_ok /\ layout \in {1, 2}
           /\ (~magic_ok \/ layout \notin {1, 2}) =>
                  lc.pc = "failed" /\ lc.error = "ValueError"
           /\ lc.pc # "failed" =>
                  /\ lc.reader.layout = layout
                  /\ lc.reader.compression = inp.hdr.flags0 % 4
                  /\ lc.reader.has_sample = (inp.hdr.flags3 >= 128)

\* A file of layout 2 was opened whose flags have bit 6 set beside the
\* layout, and every bit of the last byte but bit 31.
C22_Witness ==
    /\ lc.pc = "open"
    /\ inp.hdr.flags0 = 73
    /\ inp.hdr.flags3 = 127
    /\ lc.reader.layout = 2
    /\ ~lc.reader.has_sample

\* C10: on every exit path (the end of the with block, an exception inside
\* it, and a failure of the constructor itself) the file handle and the index
\* connection the reader acquired are released; no handle is left open
\* without a reader object to close it.
C10_HandlesReleased ==
    lc.pc \in {"failed", "exited"} => ~bgen_open /\ ~db_open

\* --------------------------------- claims on opening and reading a block

\* C21: the number of samples is compared with the header's at its three
\* places: the sample block at open, the leading n of a layout-1 variant
\* block, and the n inside a layout-2 payload; where it differs the
\* operation raises and returns no reader, respectively no record.
C21_SampleCountChecked ==
    /\ (lc.pc # "start" /\ inp.hdr.flags3 >= 128
            /\ inp.hdr.sblock.n # inp.hdr.nb_samples) =>
           lc.pc = "failed" /\ lc.error = "ValueError"
    /\ (dec # NotDecoded /\ blk.n # inp.hdr.nb_samples) =>
           /\ dec.error # None
           /\ dec.data = <<>>

\* A reader was opened on a file whose sample block agrees with the header,
\* and refused a layout-2 block whose payload holds another sample count.
C21_Witness ==
    /\ lc.pc = "open"
    /\ lc.reader.has_sample
    /\ lc.reader.decompress = "zlib"
    /\ blk.layout = 2
    /\ blk.n # blk.nb_samples
    /\ dec # NotDecoded
    /\ dec.error = "ValueError"
    /\ dec.why = "n"

\* C29: every reader PyBGEN(fn) returns has a decompressor: for each value of
\* the compression field the constructor selects one or raises, and the
\* first read of such a reader never fails for want of a decompressor.
C29_DecompressorSelected ==
    /\ lc.pc = "open" => lc.reader.decompress # None
    /\ dec # NotDecoded => dec.error # "AttributeError"

\* ------------------------------------------------- claims on the decoder

\* C14: a layout-2 block is decoded only if it has 2 alleles and its least
\* and greatest ploidy are both 2; any other combination ends the read with
\* an error and no data.
C14_OnlyBiallelicDiploid ==
    (blk.layout = 2 /\ dec # NotDecoded) =>
        LET accepted == /\ blk.nb_alleles = 2
                        /\ blk.min_ploidy = 2
                        /\ blk.max_ploidy = 2
        IN /\ dec.error = None => accepted
           /\ ~accepted => dec.error # None /\ dec.data = <<>>

\* C25: a layout-2 block is decoded only if its phased byte is 0; the byte 1
\* and every byte of 2..255 end the read with an error and no data.
C25_OnlyUnphased ==
    (blk.layout = 2 /\ dec # NotDecoded) =>
        /\ dec.error = None => blk.phased = 0
        /\ blk.phased # 0 => dec.error # None /\ dec.data = <<>>
\* The three probability numerators of sample i of the block, and their
\* denominator.
Numerators(i) ==
    IF blk.layout = 1 THEN blk.probs[i]
    ELSE << blk.probs[i][1], blk.probs[i][2],
            (Pow2(blk.b) - 1) - blk.probs[i][1] - blk.probs[i][2] >>

Denominator == IF blk.layout = 1 THEN 32768 ELSE Pow2(blk.b) - 1

\* Sample i of the block is flagged missing.
FlaggedMissing(i) == blk.layout = 2 /\ blk.ploidy[i] >= 128

\* max(P_homref, P_het, P_homalt) >= t for sample i.
MaxReaches(i) ==
    \E j \in 1..3 :
        Numerators(i)[j] * blk.prob_t[2] >= blk.prob_t[1] * Denominator

\* C15: in dosage mode with t > 0, a non-missing sample keeps its dosage
\* 2 P_homalt + P_het exactly when its greatest probability is at least t,
\* and is NaN otherwise, in both layouts; with t = 0 no non-missing dosage
\* is NaN.
C15_Threshold ==
    (blk.layout # 0 /\ dec # NotDecoded /\ dec.error = None
        /\ ~blk.return_probs) =>
        \A i \in 1..blk.nb_samples :
            ~FlaggedMissing(i) =>
                LET d == dec.data[i][1]
                    kept == /\ ~d.nan
                            /\ d.num = 2 * Numerators(i)[3] + Numerators(i)[2]
                            /\ d.den = Denominator
                IN IF blk.prob_t[1] > 0
                   THEN (IF MaxReaches(i) THEN kept ELSE d.nan)
                   ELSE kept

\* A layout-2 sample was kept at t = 1/2 on its homalt probability alone.
C15_Witness ==
    /\ blk.layout = 2
    /\ dec # NotDecoded
    /\ dec.error = None
    /\ ~blk.return_probs
    /\ blk.prob_t = << 1, 2 >>
    /\ blk.probs[1] = << 0, 1 >>
    /\ blk.ploidy[1] = 2
    /\ ~dec.data[1][1].nan

\* C16: in a layout-2 block a sample is missing exactly when bit 7 of its
\* ploidy byte is set; a missing sample is NaN in every slot in both return
\* modes whatever the threshold and its stored bits, and a sample with bit 7
\* clear is NaN only where the threshold made it so.
C16_Missingness ==
    (blk.layout = 2 /\ dec # NotDecoded /\ dec.error = None) =>
        \A i \in 1..blk.nb_samples :
            LET row == dec.data[i] IN
            /\ Len(row) = IF blk.return_probs THEN 3 ELSE 1
            /\ blk.ploidy[i] >= 128 => \A j \in DOMAIN row : row[j].nan
            /\ blk.ploidy[i] < 128 =>
                 \A j \in DOMAIN row :
                     row[j].nan =>
                         /\ ~blk.return_probs
                         /\ blk.prob_t[1] > 0
                         /\ ~MaxReaches(i)

\* A missing sample with a stored probability of 1 came out NaN in the three
\* slots with the threshold off.
C16_Witness ==
    /\ blk.layout = 2
    /\ dec # NotDecoded
    /\ dec.error = None
    /\ blk.return_probs
    /\ blk.prob_t = << 0, 1 >>
    /\ blk.ploidy[1] = 130
    /\ blk.probs[1][1] = Pow2(blk.b) - 1
    /\ \A j \in 1..3 : dec.data[1][j].nan

\* C17: every entry of a dosage vector the decoder returns is NaN or in
\* [0, 2]: its numerator is between 0 and twice its denominator.
C17_DosageRange ==
    (blk.layout # 0 /\ dec # NotDecoded /\ dec.error = None
        /\ ~blk.return_probs) =>
        \A i \in 1..blk.nb_samples :
            LET d == dec.data[i][1] IN
            d.nan \/ (0 <= d.num /\ d.num <= 2 * d.den)

\* C18: the probability data of a layout-1 block is 6N bytes: read as such
\* without compression, and as a u32 c and c bytes that decompress to 6N
\* bytes with it; the read succeeds and leaves the cursor at the end of the
\* block.
C18_Layout1Payload ==
    (blk.layout = 1 /\ dec # NotDecoded) =>
        /\ dec.error = None
        /\ dec.read = PayloadSize(blk)
        /\ ~blk.is_compressed => dec.read = 6 * blk.nb_samples

\* ------------------------------------------------ claims on the unpacker

\* The digits in base 256, most significant first, of the value whose bits
\* from the least significant one are v.
DigitsOfValue(v, b) ==
    LET nd == (b + 7) \div 8
        bit(p) == IF p < b THEN v[p + 1] ELSE 0
    IN [j \in 1..nd |->
           LET lo == (nd - j) * 8 IN
           bit(lo) + 2 * bit(lo + 1) + 4 * bit(lo + 2) + 8 * bit(lo + 3)
             + 16 * bit(lo + 4) + 32 * bit(lo + 5) + 64 * bit(lo + 6)
             + 128 * bit(lo + 7)]

\* C19: for every width b and every count M, _pack_bits applied to the
\* packing of M values of b bits (the last byte zero-filled when M*b is not a
\* multiple of 8) returns those M values in order.
C19_UnpackRoundTrip ==
    (pk.b # 0 /\ pk.packed /\ unp.generic # NotDecoded) =>
        /\ unp.generic.error = None
        /\ unp.generic.values =
               [k \in 1..Len(pk.values) |-> DigitsOfValue(pk.values[k], pk.b)]

\* C20: for b in {8, 16, 32}, np.frombuffer at that width and _pack_bits
\* return the same integers for the same bytes (and refuse the same byte
\* strings).
C20_FastPathEquivalent ==
    (pk.b \in FastWidths /\ unp.generic # NotDecoded /\ unp.fast # NotDecoded)
        => unp.fast = unp.generic

\* Both unpackers read two 16-bit words whose bytes differ.
C20_Witness ==
    /\ pk.b = 16
    /\ pk.data = << 1, 128, 165, 0 >>
    /\ unp.fast # NotDecoded
    /\ unp.generic # NotDecoded
    /\ unp.fast.error = None
    /\ Len(unp.fast.values) = 2

====
